---- MODULE Spec2Model ----
(***************************************************************************)
(* Model of purple_air.py: the PurpleAir AQI dashboard script.             *)
(*                                                                         *)
(* One run of the script is one refresh cycle: the sensor index typed in   *)
(* the sidebar is validated, fetch_sensor is called (through the           *)
(* st.cache_data cache, then the retry loop), the reading's fields are     *)
(* extracted, the AQI is computed and the AQI and PM2.5 columns are        *)
(* rendered.  The cache outlives a run.                                    *)
(*                                                                         *)
(* Values.  A Python value that may be None, a float or a string is the    *)
(* pair <<tag, n>>: <<"none", 0>> is None, <<"nan", 0>> the float NaN,     *)
(* <<"num", h>> the number h/100 (concentrations are kept in hundredths of *)
(* a microgram per cubic metre, so that 12.05 is 1205 and the breakpoint   *)
(* 12.1 is 1210; an int n is <<"num", n>>), <<"text", 0>> the empty string *)
(* and <<"text", 1>> a non-empty string float() rejects.                   *)
(***************************************************************************)
EXTENDS Integers, Sequences, FiniteSets

VARIABLES
    pc,           \* position of the script in the current run
    has_key,      \* PURPLEAIR_API_KEY is set (secrets or environment)
    sensor_id,    \* the text of the "Sensor Index" input
    sensor_index, \* int(sensor_id) once validated
    cache,        \* st.cache_data store of fetch_sensor: sensor_index -> entry
    idx,          \* fetch_sensor: number of backoffs consumed by the for loop
    last_exc,     \* fetch_sensor: last_exc
    hist,         \* the HTTP attempts of the current fetch_sensor call, in order
    exc,          \* the exception fetch_sensor raised to the script, or "none"
    payload,      \* payload (line 288)
    pm25,         \* pm25 (line 302)
    aqi,          \* aqi (line 311)
    aqi_view,     \* what column 1 shows: metric text kind, label, css class
    pm_view,      \* what column 2 shows: metric text kind, label, css class
    error_shown,  \* the st.error message of this run, or "none"
    trail         \* what this run did so far: extraction, classifier calls, metrics

vars == <<pc, has_key, sensor_id, sensor_index, cache, idx, last_exc, hist, exc,
          payload, pm25, aqi, aqi_view, pm_view, error_shown, trail>>

---------------------------------------------------------------------------
(* Bounds of the model.                                                    *)

\* Concentrations fed to the pure functions range over -MaxNeg..MaxConc
\* hundredths (-5.00 .. 520.00), every 0.01 step.
MaxNeg == 500
MaxConc == 52000
\* AQI values fed to assess_aqi directly range over 0..MaxAqi.
MaxAqi == 600

---------------------------------------------------------------------------
(* Python values.                                                          *)

None_ == <<"none", 0>>
NaN == <<"nan", 0>>
Num(n) == <<"num", n>>
JunkText == <<"text", 1>>

IsNum(v) == v[1] = "num"

\* Python truthiness, as used by `a or b`: None, 0, 0.0 and "" are falsy;
\* NaN and every other number or string are truthy.
Truthy(v) ==
    CASE v[1] = "none" -> FALSE
      [] v[1] = "num" -> v[2] # 0
      [] v[1] = "text" -> v[2] # 0
      [] OTHER -> TRUE

\* Python's `a or b`.
Or_(a, b) == IF Truthy(a) THEN a ELSE b

Min(a, b) == IF a <= b THEN a ELSE b
Max(a, b) == IF a >= b THEN a ELSE b

---------------------------------------------------------------------------
(* epa_aqi_pm25                                                            *)

\* bps, concentrations in hundredths: <<c_lo, c_hi, i_lo, i_hi>>.
bps == <<
    <<0, 1200, 0, 50>>,
    <<1210, 3540, 51, 100>>,
    <<3550, 5540, 101, 150>>,
    <<5550, 15040, 151, 200>>,
    <<15050, 25040, 201, 300>>,
    <<25050, 35040, 301, 400>>,
    <<35050, 50040, 401, 500>> >>

\* The clamp limits of line 81, in hundredths: 0.0 and 500.4.
ClampLo == 0
ClampHi == 50040

\* The concentrations (hundredths) at which the exact value of the
\* interpolation is k + 1/2 and the IEEE double evaluation of line 84,
\* followed by round(), lands on k + 1.  At the other ties it lands on k.
\* Everywhere else the double result rounds as the exact value does.
TieRoundsUp == {
    36, 84, 108, 132, 156, 180, 228, 276, 324, 348, 372, 420, 444, 468, 516,
    540, 564, 612, 636, 660, 708, 732, 756, 804, 852, 900, 924, 948, 972, 996,
    1044, 1092, 1116, 1140, 1164, 1188, 2375, 4545, 10295, 16715, 18935,
    21155, 23375, 26715, 28935, 31155, 33375, 34485 }

\* int(round((i_hi - i_lo) / (c_hi - c_lo) * (x - c_lo) + i_lo)), lines 84-85.
Interpolate(b, x) ==
    LET num == (b[4] - b[3]) * (x - b[1])
        den == b[2] - b[1]
        q == num \div den
        r == num % den
        up == (2 * r > den) \/ (2 * r = den /\ x \in TieRoundsUp)
    IN  b[3] + q + (IF up THEN 1 ELSE 0)

\* Fault seeded in Clamp: the clamp left out.
ClampOmitted(h) == h

\* min(max(pm25, 0.0), 500.4), line 81.
Clamp(h) == Min(Max(h, ClampLo), ClampHi)

\* The for loop of lines 82-86 on the clamped concentration x: the first
\* band that holds x, or None when the loop falls through.
Lookup(x) ==
    LET hit == {i \in 1..Len(bps) : bps[i][1] <= x /\ x <= bps[i][2]}
    IN  IF hit = {} THEN None_
        ELSE LET i == CHOOSE j \in hit : \A k \in hit : j <= k
             IN  Num(Interpolate(bps[i], x))

epa_aqi_pm25(v) ==
    IF v = None_ \/ v = NaN THEN None_ ELSE Lookup(Clamp(v[2]))

---------------------------------------------------------------------------
(* safe_float, assess_aqi, assess_pm25                                     *)

\* float(val) with TypeError/ValueError mapped to None.
safe_float(v) ==
    CASE v[1] = "none" -> None_
      [] v[1] = "text" -> None_
      [] OTHER -> v

\* Fault seeded in assess_aqi: the last band closed at 500, anything above
\* it rejected as unknown.
assess_aqi_capped(a) ==
    IF a = None_ THEN <<"Unknown", "">>
    ELSE LET n == a[2] IN
         IF 0 <= n /\ n <= 50 THEN <<"Good", "good">>
         ELSE IF 51 <= n /\ n <= 100 THEN <<"Moderate", "moderate">>
         ELSE IF 101 <= n /\ n <= 150 THEN <<"Unhealthy for Sensitive Groups", "usg">>
         ELSE IF 151 <= n /\ n <= 200 THEN <<"Unhealthy", "unhealthy">>
         ELSE IF 201 <= n /\ n <= 300 THEN <<"Very Unhealthy", "veryunhealthy">>
         ELSE IF 301 <= n /\ n <= 500 THEN <<"Hazardous", "hazardous">>
         ELSE <<"Unknown", "">>

\* assess_aqi: <<label, css_class>> (emoji and guidance follow the label).
assess_aqi(a) ==
    IF a = None_ THEN <<"Unknown", "">>
    ELSE LET n == a[2] IN
         IF 0 <= n /\ n <= 50 THEN <<"Good", "good">>
         ELSE IF 51 <= n /\ n <= 100 THEN <<"Moderate", "moderate">>
         ELSE IF 101 <= n /\ n <= 150 THEN <<"Unhealthy for Sensitive Groups", "usg">>
         ELSE IF 151 <= n /\ n <= 200 THEN <<"Unhealthy", "unhealthy">>
         ELSE IF 201 <= n /\ n <= 300 THEN <<"Very Unhealthy", "veryunhealthy">>
         ELSE <<"Hazardous", "hazardous">>

\* assess_pm25: <<label, css_class>> (the note follows the label).
assess_pm25(v) ==
    IF v = None_ \/ v = NaN THEN <<"-", "">>
    ELSE LET x == v[2] IN
         IF 0 <= x /\ x <= 1200 THEN <<"Good", "good">>
         ELSE IF 1210 <= x /\ x <= 3540 THEN <<"Moderate", "moderate">>
         ELSE IF 3550 <= x /\ x <= 5540 THEN <<"USG", "usg">>
         ELSE IF 5550 <= x /\ x <= 15040 THEN <<"Unhealthy", "unhealthy">>
         ELSE IF 15050 <= x /\ x <= 25040 THEN <<"Very Unhealthy", "veryunhealthy">>
         ELSE <<"Hazardous", "hazardous">>

---------------------------------------------------------------------------
(* The sidebar input and int(sensor_id)                                    *)

Digits == {"1", "2"}

\* The texts the "Sensor Index" input takes in the model: the empty text,
\* integers, and texts int() rejects.
SensorTexts == {<<>>, <<"1">>, <<"x">>, <<"1", "2">>, <<"1", "x">>}

DigitValue(c) == IF c = "1" THEN 1 ELSE 2

\* int(sensor_id) succeeds (no ValueError), line 282.
IsIntText(s) == Len(s) > 0 /\ \A i \in 1..Len(s) : s[i] \in Digits

RECURSIVE IntOf(_)
\* int(sensor_id) of a text of digits.
IntOf(s) ==
    IF Len(s) = 0 THEN 0
    ELSE 10 * IntOf(SubSeq(s, 1, Len(s) - 1)) + DigitValue(s[Len(s)])

SensorKeys == {IntOf(s) : s \in {t \in SensorTexts : IsIntText(t)}}

---------------------------------------------------------------------------
(* The API's answers                                                       *)

\* A decoded JSON body: whether it has a "sensor" object, and that object's
\* "pm2.5_atm", "pm2.5" and "pm2.5_a" entries (None when the key is absent).
Body(s, atm, pm, a) == [has_sensor |-> s, atm |-> atm, pm |-> pm, a |-> a]

NoBody == Body(FALSE, None_, None_, None_)

Payloads == {
    NoBody,
    Body(TRUE, Num(4000), None_, None_),
    Body(TRUE, Num(0), None_, None_),
    Body(TRUE, Num(0), Num(730), None_),
    Body(TRUE, Num(1205), None_, None_),
    Body(TRUE, Num(-100), None_, None_),
    Body(TRUE, JunkText, None_, None_),
    Body(TRUE, None_, None_, Num(26000)) }

\* Status codes an attempt may be answered with.
Statuses == {200, 401, 403, 404, 429, 500, 502, 503, 504}

\* The tuple of line 221.
RetryStatuses == {429, 500, 502, 503, 504}

\* What one http_session().get may bring: an exception of requests
\* (connection error, timeout), or a response with a status and a body that
\* resp.json() decodes or not.
Response(kind, status, json_ok, body) ==
    [kind |-> kind, status |-> status, json_ok |-> json_ok, body |-> body]

Responses ==
    {Response("exc", 0, FALSE, NoBody)}
    \cup {Response("http", s, FALSE, NoBody) : s \in Statuses}
    \cup {Response("http", 200, TRUE, b) : b \in Payloads}

\* resp.raise_for_status() raises HTTPError: a 4xx or 5xx status.
RaisesForStatus(s) == 400 <= s /\ s < 600

\* Fault seeded in backoffs: one more pause.
backoffs_longer == <<0, 6, 12, 24>>

\* backoffs, line 211, in tenths of a second.
backoffs == <<0, 6, 12>>

\* resp.status_code == 200, line 218.
StatusOk(r) == r.status = 200

\* What one iteration of the for loop does with what the GET brought:
\* "return" (line 219), or "continue" with the new last_exc.
Iteration(r, exc_before) ==
    IF r.kind = "exc" THEN <<"continue", "ConnectionError">>
    ELSE IF StatusOk(r) THEN
        IF r.json_ok THEN <<"return", exc_before>>
        ELSE <<"continue", "JSONDecodeError">>
    ELSE IF r.status \notin RetryStatuses /\ RaisesForStatus(r.status)
        THEN <<"continue", "HTTPError">>
    ELSE <<"continue", exc_before>>

---------------------------------------------------------------------------
(* The cache of st.cache_data                                              *)

Entry(present, value) == [present |-> present, value |-> value]

NoEntry == Entry(FALSE, NoBody)

NoView == <<None_, "", "">>

---------------------------------------------------------------------------
(* The script                                                              *)

\* The per-run variables at the start of a run.
RunStart(s) ==
    /\ pc = "validate"
    /\ sensor_id = s
    /\ sensor_index = 0
    /\ idx = 0
    /\ last_exc = "none"
    /\ hist = <<>>
    /\ exc = "none"
    /\ payload = NoBody
    /\ pm25 = None_
    /\ aqi = None_
    /\ aqi_view = NoView
    /\ pm_view = NoView
    /\ error_shown = "none"
    /\ trail = {}

Init ==
    /\ has_key \in BOOLEAN
    /\ cache = [k \in SensorKeys |-> NoEntry]
    /\ \E s \in SensorTexts : RunStart(s)

\* Lines 281-285: int(sensor_id), or st.error and st.stop.
Validate ==
    /\ pc = "validate"
    /\ IF IsIntText(sensor_id)
       THEN /\ sensor_index' = IntOf(sensor_id)
            /\ pc' = "fetch"
            /\ UNCHANGED error_shown
       ELSE /\ error_shown' = "Sensor Index must be an integer"
            /\ pc' = "stopped"
            /\ UNCHANGED sensor_index
    /\ UNCHANGED <<has_key, sensor_id, cache, idx, last_exc, hist, exc, payload,
                   pm25, aqi, aqi_view, pm_view, trail>>

\* fetch_sensor(sensor_index) answered by st.cache_data: the stored value.
FetchCached ==
    /\ pc = "fetch"
    /\ cache[sensor_index].present
    /\ payload' = cache[sensor_index].value
    /\ pc' = "returned"
    /\ UNCHANGED <<has_key, sensor_id, sensor_index, cache, idx, last_exc, hist,
                   exc, pm25, aqi, aqi_view, pm_view, error_shown, trail>>

\* A cache miss runs the body; get_api_key finds no key and calls st.stop()
\* (line 55), which ends the run there as it does at lines 285 and 291: by
\* Streamlit's StopException, a BaseException that passes through
\* fetch_sensor and through the `except Exception` of line 289.  The raise
\* of line 56 is never reached.
FetchNoKey ==
    /\ pc = "fetch"
    /\ ~cache[sensor_index].present
    /\ ~has_key
    /\ exc' = "StopException"
    /\ pc' = "stopped"
    /\ UNCHANGED <<has_key, sensor_id, sensor_index, cache, idx, last_exc, hist,
                   payload, pm25, aqi, aqi_view, pm_view, error_shown, trail>>

\* A cache miss runs the body: lines 204-212.
FetchStart ==
    /\ pc = "fetch"
    /\ ~cache[sensor_index].present
    /\ has_key
    /\ idx' = 0
    /\ last_exc' = "none"
    /\ hist' = <<>>
    /\ pc' = "loop"
    /\ UNCHANGED <<has_key, sensor_id, sensor_index, cache, exc, payload, pm25,
                   aqi, aqi_view, pm_view, error_shown, trail>>

\* One iteration of the for loop, lines 213-225: the pause, the GET, and what
\* follows from its answer.  A returned value is stored by st.cache_data.
Attempt(r) ==
    /\ pc = "loop"
    /\ idx < Len(backoffs)
    /\ idx' = idx + 1
    /\ hist' = Append(hist, r)
    /\ LET out == Iteration(r, last_exc) IN
       IF out[1] = "return"
       THEN /\ payload' = r.body
            /\ cache' = [cache EXCEPT ![sensor_index] = Entry(TRUE, r.body)]
            /\ pc' = "returned"
            /\ UNCHANGED last_exc
       ELSE /\ last_exc' = out[2]
            /\ UNCHANGED <<payload, cache, pc>>
    /\ UNCHANGED <<has_key, sensor_id, sensor_index, exc, pm25, aqi, aqi_view,
                   pm_view, error_shown, trail>>

\* The loop is exhausted, lines 227-229: raise last_exc, or RuntimeError.
GiveUp ==
    /\ pc = "loop"
    /\ idx >= Len(backoffs)
    /\ exc' = IF last_exc # "none" THEN last_exc ELSE "RuntimeError"
    /\ pc' = "raised"
    /\ UNCHANGED <<has_key, sensor_id, sensor_index, cache, idx, last_exc, hist,
                   payload, pm25, aqi, aqi_view, pm_view, error_shown, trail>>

\* Lines 289-291: st.error, then st.stop.
HandleFetchError ==
    /\ pc = "raised"
    /\ error_shown' = "Failed to fetch sensor"
    /\ pc' = "stopped"
    /\ idx' = 0
    /\ last_exc' = "none"
    /\ hist' = <<>>
    /\ UNCHANGED <<has_key, sensor_id, sensor_index, cache, exc, payload, pm25,
                   aqi, aqi_view, pm_view, trail>>

\* sensor.get(key) on `get_field(payload, "sensor") or {}`, line 293.
SensorGet(p, key) ==
    IF ~p.has_sensor THEN None_
    ELSE CASE key = "pm2.5_atm" -> p.atm
           [] key = "pm2.5" -> p.pm
           [] key = "pm2.5_a" -> p.a
           [] OTHER -> None_

\* Line 302.
ExtractPm25(p) ==
    safe_float(Or_(Or_(SensorGet(p, "pm2.5_atm"), SensorGet(p, "pm2.5")),
                   SensorGet(p, "pm2.5_a")))

\* Lines 293-309: the reading's fields.
Extract ==
    /\ pc = "returned"
    /\ pm25' = ExtractPm25(payload)
    /\ trail' = trail \cup {"extract"}
    /\ pc' = "convert"
    /\ idx' = 0
    /\ last_exc' = "none"
    /\ hist' = <<>>
    /\ UNCHANGED <<has_key, sensor_id, sensor_index, cache, exc, payload, aqi,
                   aqi_view, pm_view, error_shown>>

\* Line 311.
Convert ==
    /\ pc = "convert"
    /\ aqi' = epa_aqi_pm25(pm25)
    /\ trail' = trail \cup {"epa_aqi_pm25"}
    /\ pc' = "col1"
    /\ UNCHANGED <<has_key, sensor_id, sensor_index, cache, idx, last_exc, hist,
                   exc, payload, pm25, aqi_view, pm_view, error_shown>>

\* Lines 327-332: the AQI metric and its category.
RenderAqi ==
    /\ pc = "col1"
    /\ aqi_view' = <<aqi, assess_aqi(aqi)[1], assess_aqi(aqi)[2]>>
    /\ trail' = trail \cup {"metric_aqi", "assess_aqi"}
    /\ pc' = "col2"
    /\ UNCHANGED <<has_key, sensor_id, sensor_index, cache, idx, last_exc, hist,
                   exc, payload, pm25, aqi, pm_view, error_shown>>

\* Lines 335-346: the PM2.5 metric and its category.
RenderPm25 ==
    /\ pc = "col2"
    /\ pm_view' = <<pm25, assess_pm25(pm25)[1], assess_pm25(pm25)[2]>>
    /\ trail' = trail \cup {"metric_pm25", "assess_pm25"}
    /\ pc' = "done"
    /\ UNCHANGED <<has_key, sensor_id, sensor_index, cache, idx, last_exc, hist,
                   exc, payload, pm25, aqi, aqi_view, error_shown>>

\* The script runs again (Refresh now, the auto-refresh reload, an edited
\* input): every script variable starts over, the cache is kept.
Rerun(s) ==
    /\ pc \in {"done", "stopped"}
    /\ pc' = "validate"
    /\ sensor_id' = s
    /\ sensor_index' = 0
    /\ idx' = 0
    /\ last_exc' = "none"
    /\ hist' = <<>>
    /\ exc' = "none"
    /\ payload' = NoBody
    /\ pm25' = None_
    /\ aqi' = None_
    /\ aqi_view' = NoView
    /\ pm_view' = NoView
    /\ error_shown' = "none"
    /\ trail' = {}
    /\ UNCHANGED <<has_key, cache>>

\* An entry of the cache is dropped: its ttl of TTL_SECONDS has passed.
Expire(k) ==
    /\ pc \in {"done", "stopped"}
    /\ cache[k].present
    /\ cache' = [cache EXCEPT ![k] = NoEntry]
    /\ UNCHANGED <<pc, has_key, sensor_id, sensor_index, idx, last_exc, hist, exc,
                   payload, pm25, aqi, aqi_view, pm_view, error_shown, trail>>

Next ==
    \/ Validate
    \/ FetchCached
    \/ FetchNoKey
    \/ FetchStart
    \/ \E r \in Responses : Attempt(r)
    \/ GiveUp
    \/ HandleFetchError
    \/ Extract
    \/ Convert
    \/ RenderAqi
    \/ RenderPm25
    \/ \E s \in SensorTexts : Rerun(s)
    \/ \E k \in SensorKeys : Expire(k)

Spec == Init /\ [][Next]_vars

---------------------------------------------------------------------------
(* The pure functions on their whole input range: the script from line 311 *)
(* on, started on every concentration of the grid, and the AQI column      *)
(* started on every AQI value.                                             *)

Concentrations == {None_, NaN} \cup {Num(h) : h \in (0 - MaxNeg)..MaxConc}

AqiValues == {None_} \cup {Num(n) : n \in 0..MaxAqi}

\* The variables the pure functions do not read.
FnIdle ==
    /\ has_key = TRUE
    /\ sensor_id = <<"1">>
    /\ sensor_index = 1
    /\ cache = [k \in SensorKeys |-> NoEntry]
    /\ idx = 0
    /\ last_exc = "none"
    /\ hist = <<>>
    /\ exc = "none"
    /\ payload = NoBody
    /\ aqi_view = NoView
    /\ pm_view = NoView
    /\ error_shown = "none"

InitFn ==
    /\ FnIdle
    /\ \/ /\ pc = "convert"
          /\ pm25 \in Concentrations
          /\ aqi = None_
          /\ trail = {"extract"}
       \/ /\ pc = "col1"
          /\ pm25 = None_
          /\ aqi \in AqiValues
          /\ trail = {}

NextFn ==
    \/ Convert
    \/ RenderAqi
    \/ RenderPm25

SpecFn == InitFn /\ [][NextFn]_vars

---------------------------------------------------------------------------
(* Properties                                                              *)

\* aqi holds the result of epa_aqi_pm25(pm25).
Converted == "epa_aqi_pm25" \in trail

\* The concentration x lies strictly between band i and band i + 1.
InGap(x, i) == bps[i][2] < x /\ x < bps[i + 1][1]

\* C1: epa_aqi_pm25 returns None only for None or NaN; for every number it
\* returns an integer in [0, 500], and a concentration in the gap between two
\* bands gets the AQI of the lower band's upper bound.
C1_AqiForEveryNumber ==
    Converted =>
        /\ (aqi = None_ => pm25 \in {None_, NaN})
        /\ (IsNum(pm25) => IsNum(aqi) /\ 0 <= aqi[2] /\ aqi[2] <= 500)
        /\ \A i \in 1..(Len(bps) - 1) :
               (IsNum(pm25) /\ InGap(pm25[2], i)) => aqi = Num(bps[i][4])

\* C2: assess_pm25 puts every concentration in the band of the table that
\* holds it, and answers Hazardous only above 250.4.
C2_Pm25Bands ==
    (pc = "done" /\ IsNum(pm25)) =>
        LET x == pm25[2]
            css == pm_view[3]
        IN  /\ (0 <= x /\ x <= 1200 => css = "good")
            /\ (1210 <= x /\ x <= 3540 => css = "moderate")
            /\ (3550 <= x /\ x <= 5540 => css = "usg")
            /\ (5550 <= x /\ x <= 15040 => css = "unhealthy")
            /\ (15050 <= x /\ x <= 25040 => css = "veryunhealthy")
            /\ (css = "hazardous" => x > 25040)

\* An attempt answered with a status that is neither 200 nor one of the
\* retry statuses.
OtherStatus(r) ==
    r.kind = "http" /\ r.status # 200 /\ r.status \notin RetryStatuses

\* C3: in fetch_sensor an attempt answered with a status other than 200, 429,
\* 500, 502, 503, 504 is the last attempt of the call: no attempt follows it.
C3_NoRetryAfterOtherStatus ==
    \A i \in 1..(Len(hist) - 1) : ~OtherStatus(hist[i])

\* C4: when the fetched reading's pm2.5_atm is a number x (0 included), the
\* PM2.5 shown is x and not "no data", the AQI shown is epa_aqi_pm25(x) and
\* its category is assess_aqi(epa_aqi_pm25(x)).
C4_NumericReadingShown ==
    (pc = "done" /\ payload.has_sensor /\ IsNum(payload.atm)) =>
        LET a == epa_aqi_pm25(payload.atm) IN
        /\ pm_view[1] = payload.atm
        /\ aqi_view = <<a, assess_aqi(a)[1], assess_aqi(a)[2]>>

\* C5: for all concentrations x <= y in [0, 500.4], epa_aqi_pm25(x) and
\* epa_aqi_pm25(y) are integers and the first is at most the second.
C5_Monotone ==
    (Converted /\ IsNum(pm25) /\ 0 <= pm25[2] /\ pm25[2] <= ClampHi) =>
        \A y \in pm25[2]..ClampHi :
            LET ay == epa_aqi_pm25(Num(y))
            IN  IsNum(aqi) /\ IsNum(ay) /\ aqi[2] <= ay[2]

\* C6: epa_aqi_pm25 clamps: every concentration below 0 gets the AQI of 0,
\* which is 0, and every concentration above 500.4 gets the AQI of 500.4,
\* which is 500.
C6_Clamped ==
    (Converted /\ IsNum(pm25)) =>
        /\ (pm25[2] < 0 => aqi = Num(0) /\ aqi = epa_aqi_pm25(Num(0)))
        /\ (pm25[2] > 50040 => aqi = Num(500) /\ aqi = epa_aqi_pm25(Num(50040)))

\* C6, reached: a negative concentration was converted, to 0.
C6_Witness ==
    Converted /\ IsNum(pm25) /\ pm25[2] < 0 /\ aqi = Num(0)

Answered200(r) == r.kind = "http" /\ r.status = 200

\* An attempt answered with status 200 and a body that decodes.
Decoded200(r) == Answered200(r) /\ r.json_ok

C8_Step ==
    /\ Len(hist') <= 3
    \* the call is answered, stopped or started: no attempt yet
    /\ pc = "fetch" =>
           /\ hist' = <<>>
           /\ cache[sensor_index].present =>
                  pc' = "returned" /\ payload' = cache[sensor_index].value
           /\ (~cache[sensor_index].present /\ ~has_key) => pc' = "stopped"
           /\ (~cache[sensor_index].present /\ has_key) => pc' = "loop"
    \* in the loop: one more attempt, or the end by raising
    /\ pc = "loop" =>
           /\ \A i \in 1..Len(hist) : ~Decoded200(hist[i])
           /\ pc' \in {"loop", "returned", "raised"}
           /\ pc' \in {"loop", "returned"} =>
                  /\ Len(hist') = Len(hist) + 1
                  /\ SubSeq(hist', 1, Len(hist)) = hist
                  /\ (pc' = "returned") <=> Decoded200(hist'[Len(hist')])
                  /\ pc' = "returned" => payload' = hist'[Len(hist')].body
           /\ pc' = "raised" =>
                  /\ hist' = hist
                  /\ Len(hist) >= 1
                  /\ exc' # "none"
    \* no attempt outside the loop
    /\ pc \notin {"fetch", "loop"} => (hist' = hist \/ hist' = <<>>)

C9_FailedFetchAborts ==
    /\ exc # "none" => (pc \in {"raised", "stopped"} /\ trail = {})
    /\ pc = "stopped" => (error_shown # "none" /\ trail = {})

\* C10: for every concentration that is not None or NaN, the severity class
\* of assess_pm25(x) is the severity class of assess_aqi(epa_aqi_pm25(x)).
C10_ViewsAgree ==
    (pc = "done" /\ Converted /\ pm25 \notin {None_, NaN}) =>
        pm_view[3] = aqi_view[3]

====
